---------------------------- MODULE Spec2Model ----------------------------
(***************************************************************************)
(* A model of package breaker (src/unnamed/part_000): the circuit breaker, *)
(* its Execute wrapper, the Open->HalfOpen timer tasks and the subscriber  *)
(* relays.  Every goroutine is a process of the model; one action is one   *)
(* access to the breaker's shared memory (cb.state, cb.consecFailures,     *)
(* cb.counter, cb.events) or one channel operation, so that the            *)
(* interleavings of the model are those of the goroutines.  cb.state is    *)
(* read and written without synchronisation in the source; a read or a     *)
(* write of that word is one step here and returns the last value written. *)
(***************************************************************************)
EXTENDS Integers, Sequences, FiniteSets, Bags

(***************************************************************************)
(* Bounds of the model.                                                    *)
(***************************************************************************)
\* Execute calls made in one behaviour by the first caller, one after the other.
MaxCalls == 3
\* Capacity of a subscriber's output channel, scaled down from the 100 of
\* make(chan BreakerEvent, 100).
OutputCap == 1
\* The goroutines that call Execute.
Callers == {"c1", "c2"}
\* The LimitFailure values handed to NewBreaker (0 selects the default).
LimitInputs == {0, 1, 2}
\* The timeouts handed to Execute, in milliseconds (0: unlimited).
TimeoutInputs == {0, 100}
\* The programs around the breaker that are explored: the calls each caller
\* makes, the Subcriber calls made, and the timeouts handed to Execute.
\*   - two callers, the second making one call that overlaps the calls of the
\*     first in every way, both calling handle() directly, no subscriber;
\*   - one caller, with one subscriber (registered at any moment) and with
\*     timeouts.
Scenarios ==
  { [calls |-> [c \in Callers |-> IF c = "c1" THEN MaxCalls ELSE 1],
     subs |-> 0, timeouts |-> {0}],
    [calls |-> [c \in Callers |-> IF c = "c1" THEN MaxCalls ELSE 0],
     subs |-> 1, timeouts |-> TimeoutInputs] }

(***************************************************************************)
(* Constants of the package.                                               *)
(***************************************************************************)
STATE_CLOSE == 1
STATE_HALF_OPEN == 2
STATE_OPEN == 3
SERVICE_AVAILABLE == 1
SERVICE_UNAVAILABLE == 0

\* error values: nil, and the three errors of the breaker
Nil == "nil"
ErrorToManyRequest == "To many requests"
ErrorTimeoutExecute == "Execute is expired"
ErrorServiceUnavailable == "Service is unavailable"
\* an error of the wrapped operation itself
ErrorHandle == "handle error"

DefaultAttempts == 3
\* 4 * time.Second, in milliseconds
DefaultTimeoutState == 4 * 1000
DefaultLimitFailure == 5
DefaultMaxRequests == 10000000
\* strconv.Itoa(int(time.Now().UnixNano())): some string of digits
DefaultNameService == "<UnixNano>"

\* make(chan ResponseCommand, 1)
ResultChanCap == 1

\* the options as they were given
KeepOptions(o) == o
\* NewBreaker: the options with every zero field replaced by its default
NewOptions(o) ==
  [Attempts     |-> IF o.Attempts = 0 THEN DefaultAttempts ELSE o.Attempts,
   TimeoutState |-> IF o.TimeoutState = 0 THEN DefaultTimeoutState ELSE o.TimeoutState,
   LimitFailure |-> IF o.LimitFailure = 0 THEN DefaultLimitFailure ELSE o.LimitFailure,
   MaxRequests  |-> IF o.MaxRequests = 0 THEN DefaultMaxRequests ELSE o.MaxRequests,
   NameService  |-> IF o.NameService = "" THEN DefaultNameService ELSE o.NameService]

\* the zero value of CounterResult
CounterResult ==
  [TotalRequests |-> 0, TotalSucceses |-> 0, TotalFailures |-> 0, TotalRejects |-> 0]

NeverOpen(s) == FALSE
IsOpen(s) == s = STATE_OPEN

IsNotHalfOpen(s) == s # STATE_HALF_OPEN
IsClose(s) == s = STATE_CLOSE

NeverHalfOpen(s) == FALSE
IsHalfOpen(s) == s = STATE_HALF_OPEN

\* consecFailures > cb.options.LimitFailure
ReachedLimit(cf, limit) == cf >= limit
ExceedsLimit(cf, limit) == cf > limit

\* the two events of the breaker
UnavailableEvent(name) ==
  [Code |-> SERVICE_UNAVAILABLE, Message |-> <<"Service ", name, " is unavailable">>]
AvailableEvent(name) ==
  [Code |-> SERVICE_AVAILABLE, Message |-> <<"Service ", name, " is available">>]

\* the zero value of ResponseCommand, and the responses Execute builds
ResponseCommand == [Data |-> Nil, Error |-> Nil]
HandleResponses == {[Data |-> "data", Error |-> Nil], [Data |-> Nil, Error |-> ErrorHandle]}

\* if response.Error != nil { cb.Failure() } else { cb.Success() }
Outcome(response) == IF response.Error # Nil THEN "F_inc" ELSE "S_inc"

\* a send on a channel of capacity cap holding buf proceeds without a receiver
CanSend(buf, cap) == Len(buf) < cap

VARIABLES
  options,         \* cb.options
  state,           \* cb.state
  consecFailures,  \* cb.consecFailures
  counter,         \* cb.counter
  events,          \* cb.events: the subscribers' inbound channels, by index
  relay,           \* per subscriber: the relay goroutine [pc, ev]; ev is the event
                   \* it received last
  out,             \* per subscriber: the content of outputChannel
  pc,              \* per caller: its position in Execute / Success / Failure
  loc,             \* per caller: timeout, response, SendEvent's i and n
  task,            \* per caller: the goroutine running handle() for the current call
  resultChan,      \* per caller: the content of channel c of the current call
  abandoned,       \* number of handle() goroutines still running whose Execute timed out
  timers,          \* the goroutines of StartTimerChangeState still running (a bag)
  scenario,        \* the calls, subscriptions and timeouts of this behaviour
  callsLeft,       \* per caller: Execute calls it may still start
  g,               \* per caller: history of the current call
  sinceClosed,     \* history: failures counted in consecFailures since cb.state last
                   \* became STATE_CLOSE
  streak           \* history: failures counted in consecFailures since the last success
                   \* or entry into STATE_CLOSE (both counted up to LimitFailure + 1)

vars == <<options, state, consecFailures, counter, events, relay, out, pc, loc, task,
          resultChan, abandoned, timers, scenario, callsLeft, g, sinceClosed, streak>>

breakerVars == <<state, consecFailures, counter>>
busVars == <<events, relay, out>>
histVars == <<sinceClosed, streak>>

OptionInputs ==
  {[Attempts |-> 0, TimeoutState |-> 0, LimitFailure |-> l, MaxRequests |-> 0,
    NameService |-> ""] : l \in LimitInputs}

Loc0 == [timeout |-> 0, response |-> ResponseCommand, i |-> 0, n |-> 0]

\* history of a call: what its checks read, and what it did to the breaker
G0 == [openSeen |-> FALSE, invoked |-> FALSE,
       nSucc |-> 0, nFail |-> 0, nRej |-> 0,
       closeSeen |-> FALSE, halfSeen |-> FALSE, cfWrites |-> 0,
       nSetOpen |-> 0, nTimers |-> 0, nEmit |-> 0, stale |-> FALSE]

Task0 == [ph |-> "none", r |-> ResponseCommand]

\* a relay that has not yet received an event
NoEvent == [Code |-> -1, Message |-> << >>]

\* NewBreaker(options), before any Subcriber or Execute call
Init ==
  /\ \E o \in OptionInputs : options = NewOptions(o)
  /\ state = STATE_CLOSE
  /\ consecFailures = 0
  /\ counter = CounterResult
  /\ events = << >>
  /\ relay = << >>
  /\ out = << >>
  /\ pc = [c \in Callers |-> "idle"]
  /\ loc = [c \in Callers |-> Loc0]
  /\ task = [c \in Callers |-> Task0]
  /\ resultChan = [c \in Callers |-> << >>]
  /\ abandoned = 0
  /\ timers = EmptyBag
  /\ scenario \in Scenarios
  /\ callsLeft = scenario.calls
  /\ g = [c \in Callers |-> G0]
  /\ sinceClosed = 0
  /\ streak = 0

\* a history counter, counted up to LimitFailure + 1
CountUp(x) == IF x <= options.LimitFailure THEN x + 1 ELSE x

(***************************************************************************)
(* Execute                                                                 *)
(***************************************************************************)
\* atomic.AddUint32(&cb.counter.TotalRequests, 1); response := ResponseCommand{}
Execute_Begin(c, t) ==
  /\ pc[c] = "idle"
  /\ callsLeft[c] > 0
  /\ t \in scenario.timeouts
  /\ callsLeft' = [callsLeft EXCEPT ![c] = @ - 1]
  /\ counter' = [counter EXCEPT !.TotalRequests = @ + 1]
  /\ loc' = [loc EXCEPT ![c] = [Loc0 EXCEPT !.timeout = t]]
  /\ pc' = [pc EXCEPT ![c] = "E_isOpen"]
  /\ UNCHANGED <<options, state, consecFailures, busVars, task, resultChan, abandoned,
                 timers, scenario, g, histVars>>

\* if cb.IsOpen() {...}; otherwise handle() is called, or started in a
\* goroutine with its channel c when timeout != 0
Execute_IsOpen(c) ==
  /\ pc[c] = "E_isOpen"
  /\ g' = [g EXCEPT ![c].openSeen = (state = STATE_OPEN),
                    ![c].invoked = ~IsOpen(state) /\ loc[c].timeout # 0]
  /\ IF IsOpen(state)
       THEN /\ pc' = [pc EXCEPT ![c] = "E_reject"]
            /\ UNCHANGED task
       ELSE IF loc[c].timeout = 0
         THEN /\ pc' = [pc EXCEPT ![c] = "E_handle"]
              /\ UNCHANGED task
         ELSE /\ pc' = [pc EXCEPT ![c] = "E_select"]
              /\ task' = [task EXCEPT ![c].ph = "running"]
  /\ UNCHANGED <<options, breakerVars, busVars, loc, resultChan, abandoned, timers,
                 scenario, callsLeft, histVars>>

\* a rejection that is not counted
NoReject(cnt) == cnt
\* func (cb *Breaker) Reject()
Reject(cnt) == [cnt EXCEPT !.TotalRejects = @ + 1]

\* cb.Reject(); response.Error = cb.ErrorServiceUnavailable(); response.Data = nil
Execute_Reject(c) ==
  /\ pc[c] = "E_reject"
  /\ counter' = Reject(counter)
  /\ g' = [g EXCEPT ![c].nRej = @ + (counter'.TotalRejects - counter.TotalRejects)]
  /\ loc' = [loc EXCEPT ![c].response = [Data |-> Nil, Error |-> ErrorServiceUnavailable]]
  /\ pc' = [pc EXCEPT ![c] = "E_return"]
  /\ UNCHANGED <<options, state, consecFailures, busVars, task, resultChan, abandoned,
                 timers, scenario, callsLeft, histVars>>

\* return response
Execute_Return(c) ==
  /\ pc[c] = "E_return"
  /\ pc' = [pc EXCEPT ![c] = "idle"]
  /\ loc' = [loc EXCEPT ![c] = Loc0]
  /\ g' = [g EXCEPT ![c] = G0]
  /\ UNCHANGED <<options, breakerVars, busVars, task, resultChan, abandoned, timers,
                 scenario, callsLeft, histVars>>

\* timeout == 0: response = handle(), returning whatever the operation returns
Execute_Handle(c) ==
  /\ pc[c] = "E_handle"
  /\ \E r \in HandleResponses :
       /\ loc' = [loc EXCEPT ![c].response = r]
       /\ pc' = [pc EXCEPT ![c] = Outcome(r)]
  /\ g' = [g EXCEPT ![c].invoked = TRUE]
  /\ UNCHANGED <<options, breakerVars, busVars, task, resultChan, abandoned, timers,
                 scenario, callsLeft, histVars>>

\* go func() { c <- handle() }(): handle() returns and its result is sent on c
Handle_Return(c) ==
  /\ task[c].ph = "running"
  /\ CanSend(resultChan[c], ResultChanCap)
  /\ \E r \in HandleResponses :
       /\ task' = [task EXCEPT ![c] = [ph |-> "done", r |-> r]]
       /\ resultChan' = [resultChan EXCEPT ![c] = Append(@, r)]
  /\ UNCHANGED <<options, breakerVars, busVars, pc, loc, abandoned, timers, scenario, callsLeft, g,
                 histVars>>

\* case r := <-c: response = r; close(c)
Execute_Receive(c) ==
  /\ pc[c] = "E_select"
  /\ resultChan[c] # << >>
  /\ loc' = [loc EXCEPT ![c].response = Head(resultChan[c])]
  /\ resultChan' = [resultChan EXCEPT ![c] = << >>]
  /\ task' = [task EXCEPT ![c] = Task0]
  /\ pc' = [pc EXCEPT ![c] = Outcome(Head(resultChan[c]))]
  /\ UNCHANGED <<options, breakerVars, busVars, abandoned, timers, scenario, callsLeft, g,
                 histVars>>

\* case <-time.NewTimer(timeout).C: the goroutine, if still running, is left behind
Execute_Timeout(c) ==
  /\ pc[c] = "E_select"
  /\ loc' = [loc EXCEPT ![c].response = [Data |-> Nil, Error |-> ErrorTimeoutExecute]]
  /\ pc' = [pc EXCEPT ![c] = Outcome([Data |-> Nil, Error |-> ErrorTimeoutExecute])]
  /\ abandoned' = IF task[c].ph = "running" THEN abandoned + 1 ELSE abandoned
  /\ task' = [task EXCEPT ![c] = Task0]
  /\ resultChan' = [resultChan EXCEPT ![c] = << >>]
  /\ UNCHANGED <<options, breakerVars, busVars, timers, scenario, callsLeft, g, histVars>>

\* the same goroutine had c no buffer: its send waits for a receiver for ever
Abandoned_Blocks == abandoned > 0 /\ CanSend(<< >>, 0) /\ UNCHANGED vars

\* c <- handle() in a goroutine whose Execute has timed out: handle() returns
\* and its result is sent on c, which is empty and has no receiver any more
Abandoned_Return ==
  /\ abandoned > 0
  /\ CanSend(<< >>, ResultChanCap)
  /\ abandoned' = abandoned - 1
  /\ UNCHANGED <<options, breakerVars, busVars, pc, loc, task, resultChan, timers,
                 scenario, callsLeft, g, histVars>>

(***************************************************************************)
(* Success                                                                 *)
(***************************************************************************)
\* atomic.AddUint32(&cb.counter.TotalSucceses, 1)
Success_Inc(c) ==
  /\ pc[c] = "S_inc"
  /\ counter' = [counter EXCEPT !.TotalSucceses = @ + 1]
  /\ g' = [g EXCEPT ![c].nSucc = @ + 1]
  /\ streak' = 0
  /\ pc' = [pc EXCEPT ![c] = "S_isHalf"]
  /\ UNCHANGED <<options, state, consecFailures, busVars, loc, task, resultChan, abandoned,
                 timers, scenario, callsLeft, sinceClosed>>

\* if cb.IsHalfOpen() {...}; otherwise Success returns
Success_IsHalfOpen(c) ==
  /\ pc[c] = "S_isHalf"
  /\ pc' = [pc EXCEPT ![c] = IF IsHalfOpen(state) THEN "S_setState" ELSE "E_return"]
  /\ UNCHANGED <<options, breakerVars, busVars, loc, task, resultChan, abandoned, timers,
                 scenario, callsLeft, g, histVars>>

\* cb.SetState(STATE_CLOSE)
Success_SetState(c) ==
  /\ pc[c] = "S_setState"
  /\ state' = STATE_CLOSE
  /\ sinceClosed' = IF state # STATE_CLOSE THEN 0 ELSE sinceClosed
  /\ streak' = IF state # STATE_CLOSE THEN 0 ELSE streak
  /\ pc' = [pc EXCEPT ![c] = "S_store"]
  /\ UNCHANGED <<options, consecFailures, counter, busVars, loc, task, resultChan,
                 abandoned, timers, scenario, callsLeft, g>>

\* atomic.StoreUint32(&cb.consecFailures, 0); Success returns
Success_Store(c) ==
  /\ pc[c] = "S_store"
  /\ consecFailures' = 0
  /\ pc' = [pc EXCEPT ![c] = "E_return"]
  /\ UNCHANGED <<options, state, counter, busVars, loc, task, resultChan, abandoned,
                 timers, scenario, callsLeft, g, histVars>>

(***************************************************************************)
(* StartTimerChangeState, SendEvent                                        *)
(***************************************************************************)
\* a timer goroutine: stale tells that the Open episode it was scheduled for
\* has ended (history)
Timer(p, i, n, stale) == [pc |-> p, i |-> i, n |-> n, stale |-> stale]

\* go func() { <-time.NewTimer(cb.options.TimeoutState).C ... }(): one more
\* timer goroutine
StartTimerChangeState(ts, stale) == ts (+) SetToBag({Timer("wait", 0, 0, stale)})

\* the timers ts with one copy of t replaced by u, or ended
Replace(ts, t, u) == (ts (-) SetToBag({t})) (+) SetToBag({u})
Ended(ts, t) == ts (-) SetToBag({t})

\* history: an Open episode ends, and the timers scheduled for it are stale
MarkStale(ts) ==
  LET marked == {[t EXCEPT !.stale = TRUE] : t \in BagToSet(ts)}
  IN  [u \in marked |-> CopiesIn(u, ts) + CopiesIn([u EXCEPT !.stale = FALSE], ts)]

\* reader <- *event, for the reader at index i of cb.events: the relay takes it
Receive(rl, i, event) == [rl EXCEPT ![i] = [pc |-> "select", ev |-> event]]

(***************************************************************************)
(* Failure                                                                 *)
(***************************************************************************)
\* atomic.AddUint32(&cb.counter.TotalFailures, 1)
Failure_Inc(c) ==
  /\ pc[c] = "F_inc"
  /\ counter' = [counter EXCEPT !.TotalFailures = @ + 1]
  /\ g' = [g EXCEPT ![c].nFail = @ + 1]
  /\ pc' = [pc EXCEPT ![c] = "F_isClose"]
  /\ UNCHANGED <<options, state, consecFailures, busVars, loc, task, resultChan, abandoned,
                 timers, scenario, callsLeft, histVars>>

\* if cb.IsClose() {...}
Failure_IsClose(c) ==
  /\ pc[c] = "F_isClose"
  /\ pc' = [pc EXCEPT ![c] = IF IsClose(state) THEN "F_add" ELSE "F_isHalf"]
  /\ g' = [g EXCEPT ![c].closeSeen = (state = STATE_CLOSE)]
  /\ UNCHANGED <<options, breakerVars, busVars, loc, task, resultChan, abandoned, timers,
                 scenario, callsLeft, histVars>>

\* atomic.AddUint32(&cb.consecFailures, 1)
Failure_Add(c) ==
  /\ pc[c] = "F_add"
  /\ consecFailures' = consecFailures + 1
  /\ g' = [g EXCEPT ![c].cfWrites = @ + 1]
  /\ sinceClosed' = CountUp(sinceClosed)
  /\ streak' = CountUp(streak)
  /\ pc' = [pc EXCEPT ![c] = "F_load"]
  /\ UNCHANGED <<options, state, counter, busVars, loc, task, resultChan, abandoned,
                 timers, scenario, callsLeft>>

\* consecFailures := atomic.LoadUint32(&cb.consecFailures);
\* if consecFailures > cb.options.LimitFailure {...}
Failure_Load(c) ==
  /\ pc[c] = "F_load"
  /\ pc' = [pc EXCEPT ![c] = IF ExceedsLimit(consecFailures, options.LimitFailure)
                               THEN "F_setState" ELSE "F_isHalf"]
  /\ UNCHANGED <<options, breakerVars, busVars, loc, task, resultChan, abandoned, timers,
                 scenario, callsLeft, g, histVars>>

\* cb.SetState(STATE_OPEN), at position at of Failure
SetStateOpen(c, at, next) ==
  /\ pc[c] = at
  /\ state' = STATE_OPEN
  /\ g' = [g EXCEPT ![c].nSetOpen = @ + 1, ![c].stale = FALSE]
  /\ pc' = [pc EXCEPT ![c] = next]
  /\ UNCHANGED <<options, consecFailures, counter, busVars, loc, task, resultChan,
                 abandoned, timers, scenario, callsLeft, histVars>>

\* cb.StartTimerChangeState(), at position at of Failure
StartTimer(c, at, next) ==
  /\ pc[c] = at
  /\ timers' = StartTimerChangeState(timers, g[c].stale)
  /\ g' = [g EXCEPT ![c].nTimers = @ + (BagCardinality(timers') - BagCardinality(timers)),
                    ![c].stale = FALSE]
  /\ pc' = [pc EXCEPT ![c] = next]
  /\ UNCHANGED <<options, breakerVars, busVars, loc, task, resultChan, abandoned,
                 scenario, callsLeft, histVars>>

\* cb.SendEvent(event), at position at of Failure: for _, reader := range
\* cb.events evaluates cb.events once
SendEventBegin(c, at, sending, next) ==
  /\ pc[c] = at
  /\ loc' = [loc EXCEPT ![c].i = 0, ![c].n = IF Len(events) = 0 THEN 0 ELSE Len(events)]
  /\ g' = [g EXCEPT ![c].nEmit = @ + 1]
  /\ pc' = [pc EXCEPT ![c] = IF Len(events) = 0 THEN next ELSE sending]
  /\ UNCHANGED <<options, breakerVars, busVars, task, resultChan, abandoned, timers,
                 scenario, callsLeft, histVars>>

\* reader <- *event in SendEvent's loop: the send to the next subscriber, taken
\* by its relay when that waits on its inbound channel
SendEventDeliver(c, sending, next) ==
  /\ pc[c] = sending
  /\ relay[events[loc[c].i + 1]].pc = "recv"
  /\ relay' = Receive(relay, events[loc[c].i + 1], UnavailableEvent(options.NameService))
  /\ IF loc[c].i + 1 = loc[c].n
       THEN /\ loc' = [loc EXCEPT ![c].i = 0, ![c].n = 0]
            /\ pc' = [pc EXCEPT ![c] = next]
       ELSE /\ loc' = [loc EXCEPT ![c].i = @ + 1]
            /\ UNCHANGED pc
  /\ UNCHANGED <<options, breakerVars, events, out, task, resultChan, abandoned, timers,
                 scenario, callsLeft, g, histVars>>

\* the branch if cb.IsClose(), once the limit is exceeded
Failure_CloseSetState(c) == SetStateOpen(c, "F_setState", "F_timer")
Failure_CloseStartTimer(c) == StartTimer(c, "F_timer", "F_send")
Failure_CloseSendEvent(c) == SendEventBegin(c, "F_send", "F_sending", "F_isHalf")
Failure_CloseDeliver(c) == SendEventDeliver(c, "F_sending", "F_isHalf")

\* if cb.IsHalfOpen() {...}; otherwise Failure returns
Failure_IsHalfOpen(c) ==
  /\ pc[c] = "F_isHalf"
  /\ pc' = [pc EXCEPT ![c] = IF IsHalfOpen(state) THEN "H_setState" ELSE "E_return"]
  /\ g' = [g EXCEPT ![c].halfSeen = (state = STATE_HALF_OPEN)]
  /\ UNCHANGED <<options, breakerVars, busVars, loc, task, resultChan, abandoned, timers,
                 scenario, callsLeft, histVars>>

\* the branch if cb.IsHalfOpen(); Failure returns after it
Failure_HalfSetState(c) == SetStateOpen(c, "H_setState", "H_timer")
Failure_HalfStartTimer(c) == StartTimer(c, "H_timer", "H_send")
Failure_HalfSendEvent(c) == SendEventBegin(c, "H_send", "H_sending", "E_return")
Failure_HalfDeliver(c) == SendEventDeliver(c, "H_sending", "E_return")

(***************************************************************************)
(* The goroutine of StartTimerChangeState                                  *)
(***************************************************************************)
\* the timer fires: if cb.GetState() == STATE_OPEN {...}; otherwise the
\* goroutine ends
Timer_Fire(t) ==
  /\ t.pc = "wait"
  /\ timers' = IF state = STATE_OPEN THEN Replace(timers, t, [t EXCEPT !.pc = "setState"])
                                     ELSE Ended(timers, t)
  /\ UNCHANGED <<options, breakerVars, busVars, pc, loc, task, resultChan, abandoned,
                 scenario, callsLeft, g, histVars>>

\* cb.SetState(STATE_HALF_OPEN); when that ends an Open episode, the other
\* timers, and those about to be started for it, are stale from now on
Timer_SetState(t) ==
  /\ t.pc = "setState"
  /\ state' = STATE_HALF_OPEN
  /\ timers' = IF state = STATE_OPEN
                 THEN MarkStale(Ended(timers, t)) (+) SetToBag({Timer("send", 0, 0, FALSE)})
                 ELSE Replace(timers, t, Timer("send", 0, 0, FALSE))
  /\ g' = IF state = STATE_OPEN
            THEN [c \in Callers |->
                    IF pc[c] \in {"F_timer", "H_timer"} THEN [g[c] EXCEPT !.stale = TRUE]
                                                        ELSE g[c]]
            ELSE g
  /\ UNCHANGED <<options, consecFailures, counter, busVars, pc, loc, task, resultChan,
                 abandoned, scenario, callsLeft, histVars>>

\* cb.SendEvent(event): for _, reader := range cb.events; with no subscriber
\* the goroutine ends
Timer_SendEvent(t) ==
  /\ t.pc = "send"
  /\ timers' = IF Len(events) = 0
                 THEN Ended(timers, t)
                 ELSE Replace(timers, t, Timer("sending", 0, Len(events), FALSE))
  /\ UNCHANGED <<options, breakerVars, busVars, pc, loc, task, resultChan, abandoned,
                 scenario, callsLeft, g, histVars>>

\* reader <- *event in SendEvent's loop; the goroutine ends after the last send
Timer_Deliver(t) ==
  /\ t.pc = "sending"
  /\ relay[events[t.i + 1]].pc = "recv"
  /\ relay' = Receive(relay, events[t.i + 1], AvailableEvent(options.NameService))
  /\ timers' = IF t.i + 1 = t.n THEN Ended(timers, t)
                                ELSE Replace(timers, t, [t EXCEPT !.i = @ + 1])
  /\ UNCHANGED <<options, breakerVars, events, out, pc, loc, task, resultChan, abandoned,
                 scenario, callsLeft, g, histVars>>

(***************************************************************************)
(* Subcriber and its relay goroutine                                       *)
(***************************************************************************)
\* Subcriber(): the two channels, the relay goroutine, cb.events = append(...)
Subcriber ==
  /\ Len(events) < scenario.subs
  /\ events' = Append(events, Len(events) + 1)
  /\ relay' = Append(relay, [pc |-> "recv", ev |-> NoEvent])
  /\ out' = Append(out, << >>)
  /\ UNCHANGED <<options, breakerVars, pc, loc, task, resultChan, abandoned, timers,
                 scenario, callsLeft, g, histVars>>

\* select { case outputChannel <- event: default: ... }
Relay_Select(s) ==
  /\ relay[s].pc = "select"
  /\ IF CanSend(out[s], OutputCap)
       THEN /\ out' = [out EXCEPT ![s] = Append(@, relay[s].ev)]
            /\ relay' = [relay EXCEPT ![s].pc = "recv"]
       ELSE /\ relay' = [relay EXCEPT ![s].pc = "evict"]
            /\ UNCHANGED out
  /\ UNCHANGED <<options, breakerVars, events, pc, loc, task, resultChan, abandoned,
                 timers, scenario, callsLeft, g, histVars>>

\* default: <-outputChannel
Relay_Evict(s) ==
  /\ relay[s].pc = "evict"
  /\ out[s] # << >>
  /\ out' = [out EXCEPT ![s] = Tail(@)]
  /\ relay' = [relay EXCEPT ![s].pc = "push"]
  /\ UNCHANGED <<options, breakerVars, events, pc, loc, task, resultChan, abandoned,
                 timers, scenario, callsLeft, g, histVars>>

\* default: outputChannel <- event
Relay_Push(s) ==
  /\ relay[s].pc = "push"
  /\ CanSend(out[s], OutputCap)
  /\ out' = [out EXCEPT ![s] = Append(@, relay[s].ev)]
  /\ relay' = [relay EXCEPT ![s].pc = "recv"]
  /\ UNCHANGED <<options, breakerVars, events, pc, loc, task, resultChan, abandoned,
                 timers, scenario, callsLeft, g, histVars>>

\* the subscriber receives from the channel Subcriber returned
Subscriber_Receive(s) ==
  /\ out[s] # << >>
  /\ out' = [out EXCEPT ![s] = Tail(@)]
  /\ UNCHANGED <<options, breakerVars, events, relay, pc, loc, task, resultChan,
                 abandoned, timers, scenario, callsLeft, g, histVars>>

(***************************************************************************)
(* The specification                                                       *)
(***************************************************************************)
CallerStep(c) ==
  \/ Execute_IsOpen(c) \/ Execute_Reject(c) \/ Execute_Handle(c)
  \/ Execute_Receive(c) \/ Execute_Timeout(c) \/ Execute_Return(c)
  \/ Success_Inc(c) \/ Success_IsHalfOpen(c) \/ Success_SetState(c) \/ Success_Store(c)
  \/ Failure_Inc(c) \/ Failure_IsClose(c) \/ Failure_Add(c) \/ Failure_Load(c)
  \/ Failure_CloseSetState(c) \/ Failure_CloseStartTimer(c)
  \/ Failure_CloseSendEvent(c) \/ Failure_CloseDeliver(c)
  \/ Failure_IsHalfOpen(c)
  \/ Failure_HalfSetState(c) \/ Failure_HalfStartTimer(c)
  \/ Failure_HalfSendEvent(c) \/ Failure_HalfDeliver(c)

TimerStep(t) ==
  Timer_Fire(t) \/ Timer_SetState(t) \/ Timer_SendEvent(t) \/ Timer_Deliver(t)

RelayStep(s) == Relay_Select(s) \/ Relay_Evict(s) \/ Relay_Push(s)

Next ==
  \/ \E c \in Callers, t \in TimeoutInputs : Execute_Begin(c, t)
  \/ \E c \in Callers : CallerStep(c)
  \/ \E c \in Callers : Handle_Return(c)
  \/ Abandoned_Return
  \/ \E t \in BagToSet(timers) : TimerStep(t)
  \/ Subcriber
  \/ \E s \in 1..Len(relay) : RelayStep(s)
  \/ \E s \in 1..Len(out) : Subscriber_Receive(s)

Spec == Init /\ [][Next]_vars

(***************************************************************************)
(* Fairness: every goroutine of the package that can take a step does so   *)
(* (the Go scheduler), and a timer that was started fires.  Nothing is     *)
(* assumed of the wrapped operation, of new Execute or Subcriber calls, or *)
(* of the subscriber reading its channel.                                  *)
(***************************************************************************)
RelayOf(s) == s \in DOMAIN relay /\ RelayStep(s)

Fairness ==
  /\ \A c \in Callers : WF_vars(CallerStep(c))
  /\ WF_vars(\E t \in BagToSet(timers) : TimerStep(t))
  /\ WF_vars(RelayOf(1))

\* the behaviours of Spec in which the goroutines are scheduled fairly
LiveSpec == Init /\ [][Next]_vars /\ Fairness

(***************************************************************************)
(* Positions of a caller                                                   *)
(***************************************************************************)
FailurePcs == {"F_inc", "F_isClose", "F_add", "F_load", "F_setState", "F_timer", "F_send",
               "F_sending", "F_isHalf", "H_setState", "H_timer", "H_send", "H_sending"}
HalfBranchPcs == {"H_setState", "H_timer", "H_send", "H_sending"}

\* the timer goroutines that have not yet acted on cb.state, and the calls of
\* StartTimerChangeState that a Failure which has just written STATE_OPEN is
\* about to make
PendingTimers ==
  LET waiting == {t \in BagToSet(timers) : t.pc \in {"wait", "setState"}}
      Sum[S \in SUBSET waiting] ==
        IF S = {} THEN 0
        ELSE LET t == CHOOSE u \in S : TRUE IN CopiesIn(t, timers) + Sum[S \ {t}]
  IN  Sum[waiting] + Cardinality({c \in Callers : pc[c] \in {"F_timer", "H_timer"}})

(***************************************************************************)
(* C1: an Execute call that finds the breaker Open at its check never      *)
(* invokes the operation and records neither a success nor a failure; it   *)
(* returns the ServiceUnavailable error with nil data, having incremented  *)
(* the reject counter by exactly one.                                      *)
(***************************************************************************)
C1_OpenRejects ==
  \A c \in Callers :
    g[c].openSeen =>
      /\ pc[c] \in {"E_reject", "E_return"}
      /\ ~g[c].invoked /\ task[c].ph = "none"
      /\ g[c].nSucc = 0 /\ g[c].nFail = 0
      /\ g[c].nRej = (IF pc[c] = "E_return" THEN 1 ELSE 0)
      /\ pc[c] = "E_return" =>
           loc[c].response = [Data |-> Nil, Error |-> ErrorServiceUnavailable]

C1_Witness ==
  \E c \in Callers :
    /\ pc[c] = "E_return" /\ g[c].openSeen
    /\ loc[c].response.Error = ErrorServiceUnavailable
    /\ counter.TotalRejects = 1

(***************************************************************************)
(* C2: as long as no more than LimitFailure failures have been recorded    *)
(* since NewBreaker, the breaker is Closed: no Failure has written or is   *)
(* about to write STATE_OPEN, and no timer has been started.               *)
(***************************************************************************)
C2_ClosedUpToLimit ==
  counter.TotalFailures <= options.LimitFailure =>
    /\ state = STATE_CLOSE
    /\ timers = EmptyBag
    /\ \A c \in Callers : pc[c] \notin ({"F_setState", "F_timer", "F_send", "F_sending"}
                                        \cup HalfBranchPcs)

C2_Witness ==
  /\ counter.TotalFailures = options.LimitFailure
  /\ consecFailures = options.LimitFailure
  /\ state = STATE_CLOSE
  /\ \A c \in Callers : pc[c] = "idle"

(***************************************************************************)
(* C3: a trip is one Closed->Open transition: whenever Failure executes    *)
(* cb.SetState(STATE_OPEN) in its Closed branch, the state is still        *)
(* Closed (there is no second SetState(STATE_OPEN), timer and Unavailable  *)
(* event for the same trip).                                               *)
(***************************************************************************)
C3_SingleTrip ==
  [][\A c \in Callers :
       (pc[c] = "F_setState" /\ pc'[c] = "F_timer") => state = STATE_CLOSE]_vars

(***************************************************************************)
(* C4: whenever the breaker is Open, exactly one scheduled Open->HalfOpen  *)
(* action is pending (counting the one that the Failure which has just     *)
(* written STATE_OPEN is about to schedule).                               *)
(***************************************************************************)
C4_OnePendingTimer == state = STATE_OPEN => PendingTimers = 1

(***************************************************************************)
(* C5: an Open episode is ended once, by a timer scheduled for it: no      *)
(* timer that is about to write STATE_HALF_OPEN and emit Available was     *)
(* scheduled for an Open episode that has already ended.                   *)
(***************************************************************************)
C5_NoStaleTimer == \A t \in BagToSet(timers) : t.pc = "setState" => ~t.stale

(***************************************************************************)
(* C6: after every entry into Closed it takes LimitFailure + 1 failures    *)
(* counted against the Closed state to trip the breaker: a Closed->Open    *)
(* transition happens only when more than LimitFailure failures were       *)
(* counted since the state last became Closed.                             *)
(***************************************************************************)
C6_FullCountAfterClose ==
  [][(state = STATE_CLOSE /\ state' = STATE_OPEN) => sinceClosed > options.LimitFailure]_vars

(***************************************************************************)
(* C7: a Failure that finds the breaker HalfOpen at its HalfOpen check     *)
(* writes STATE_OPEN, starts a timer and emits an Unavailable event to the *)
(* subscribers, whatever consecFailures and LimitFailure are; if it did    *)
(* not find the breaker Closed before, it does not write consecFailures.   *)
(***************************************************************************)
C7_HalfOpenState ==
  \A c \in Callers :
    /\ (g[c].halfSeen /\ pc[c] # "E_return") => pc[c] \in HalfBranchPcs
    /\ (g[c].halfSeen /\ pc[c] \in {"H_timer", "H_send", "H_sending", "E_return"}) =>
         g[c].nSetOpen >= 1
    /\ (g[c].halfSeen /\ pc[c] \in {"H_send", "H_sending", "E_return"}) => g[c].nTimers >= 1
    /\ (g[c].halfSeen /\ pc[c] \in {"H_sending", "E_return"}) => g[c].nEmit >= 1
    /\ (g[c].halfSeen /\ ~g[c].closeSeen) =>
         /\ g[c].cfWrites = 0
         /\ pc[c] = "E_return" => (g[c].nSetOpen = 1 /\ g[c].nTimers = 1 /\ g[c].nEmit = 1)

C7_HalfOpenStep ==
  \A c \in Callers :
    /\ (pc[c] = "H_setState" /\ pc'[c] # pc[c]) =>
         (state' = STATE_OPEN /\ consecFailures' = consecFailures)
    /\ (pc[c] = "H_timer" /\ pc'[c] # pc[c]) =>
         (BagCardinality(timers') = BagCardinality(timers) + 1
          /\ consecFailures' = consecFailures)
    /\ (pc[c] = "H_sending" /\ loc'[c] # loc[c]) =>
         (relay'[events[loc[c].i + 1]].ev = UnavailableEvent(options.NameService)
          /\ consecFailures' = consecFailures)

C7_HalfOpenFailure == []C7_HalfOpenState /\ [][C7_HalfOpenStep]_vars

C7_Witness ==
  \E c \in Callers :
    /\ pc[c] = "E_return" /\ g[c].halfSeen /\ ~g[c].closeSeen
    /\ g[c].nTimers = 1
    /\ Len(events) = 1
    /\ state = STATE_OPEN
    /\ consecFailures = options.LimitFailure + 1

(***************************************************************************)
(* C8: failures separated by successes while Closed do not trip the        *)
(* breaker: a Closed->Open transition happens only when more than          *)
(* LimitFailure failures were recorded in a row, with no success between   *)
(* them.                                                                   *)
(***************************************************************************)
C8_ConsecutiveOnly ==
  [][(state = STATE_CLOSE /\ state' = STATE_OPEN) => streak > options.LimitFailure]_vars

(***************************************************************************)
(* C9: a call whose timer wins the race returns the TimeoutExecute error   *)
(* with nil data and records exactly one failure, no success and no        *)
(* reject; the goroutine it leaves behind can always deliver its result    *)
(* and end, and when it does, no counter, no consecFailures, no state and  *)
(* nothing else of the breaker or its callers changes.                     *)
(***************************************************************************)
C9_TimeoutState ==
  /\ \A c \in Callers :
       loc[c].response.Error = ErrorTimeoutExecute =>
         /\ pc[c] \in FailurePcs \cup {"E_return"}
         /\ loc[c].response.Data = Nil
         /\ g[c].nFail = (IF pc[c] = "F_inc" THEN 0 ELSE 1)
         /\ g[c].nSucc = 0 /\ g[c].nRej = 0
  /\ abandoned > 0 => ENABLED Abandoned_Return

C9_AbandonedStep ==
  abandoned' < abandoned =>
    UNCHANGED <<options, breakerVars, busVars, pc, loc, task, resultChan, timers, g>>

C9_TimeoutAbandons == []C9_TimeoutState /\ [][C9_AbandonedStep]_vars

C9_Witness ==
  \E c \in Callers :
    /\ pc[c] = "E_return"
    /\ loc[c].response = [Data |-> Nil, Error |-> ErrorTimeoutExecute]
    /\ g[c].nFail = 1
    /\ abandoned = 1

(***************************************************************************)
(* C10: every Execute call with a nonzero timeout eventually returns to    *)
(* its caller, whether or not the subscriber reads its channel.            *)
(***************************************************************************)
C10_TimedCallReturns ==
  \A c \in Callers : (pc[c] # "idle" /\ loc[c].timeout # 0) ~> (pc[c] = "idle")

(***************************************************************************)
(* C11: a subscriber's relay never blocks: whenever it holds an event it   *)
(* has received on its inbound channel, it can take its next step (place   *)
(* the event in the output channel, or evict the oldest one), whatever the *)
(* subscriber has read from the output channel meanwhile.                  *)
(***************************************************************************)
C11_RelayNeverBlocks ==
  \A s \in DOMAIN relay : relay[s].pc \in {"select", "evict", "push"} => ENABLED RelayStep(s)

(***************************************************************************)
(* NewBreaker, as an operation of its own: the behaviours of NewSpec start *)
(* before the call, with any *OptionsConfig as its argument, and make the  *)
(* call.                                                                   *)
(***************************************************************************)
\* the values of a numeric field of OptionsConfig, and of NameService
FieldInputs == {0, 1, 7}
NameInputs == {"", "svc"}
\* the zero value OptionsConfig{}
ZeroOptions ==
  [Attempts |-> 0, TimeoutState |-> 0, LimitFailure |-> 0, MaxRequests |-> 0,
   NameService |-> ""]
\* a *OptionsConfig: nil, or a pointer to an OptionsConfig
NilOptions == << >>
OptionsPointers ==
  {NilOptions} \cup
  {<<o>> : o \in [Attempts : FieldInputs, TimeoutState : FieldInputs,
                  LimitFailure : FieldInputs, MaxRequests : FieldInputs,
                  NameService : NameInputs]}

\* before the call of NewBreaker(input): no breaker yet (state 0 is no State
\* of the package), no caller, no subscriber
NewInit ==
  /\ \E p \in OptionsPointers :
       scenario = [calls |-> [c \in Callers |-> 0], subs |-> 0, timeouts |-> {},
                   input |-> p]
  /\ options = ZeroOptions
  /\ state = 0
  /\ consecFailures = 0
  /\ counter = CounterResult
  /\ events = << >>
  /\ relay = << >>
  /\ out = << >>
  /\ pc = [c \in Callers |-> "idle"]
  /\ loc = [c \in Callers |-> Loc0]
  /\ task = [c \in Callers |-> Task0]
  /\ resultChan = [c \in Callers |-> << >>]
  /\ abandoned = 0
  /\ timers = EmptyBag
  /\ callsLeft = scenario.calls
  /\ g = [c \in Callers |-> G0]
  /\ sinceClosed = 0
  /\ streak = 0

\* func NewBreaker(options *OptionsConfig) *Breaker
NewBreaker ==
  /\ state = 0
  /\ LET o == IF scenario.input = NilOptions THEN ZeroOptions ELSE Head(scenario.input)
     IN  options' = NewOptions(o)
  /\ counter' = CounterResult
  /\ state' = STATE_CLOSE
  /\ consecFailures' = 0
  /\ UNCHANGED <<busVars, pc, loc, task, resultChan, abandoned, timers, scenario,
                 callsLeft, g, histVars>>

NewSpec == NewInit /\ [][NewBreaker]_vars

(***************************************************************************)
(* C12: NewBreaker returns a breaker in state Closed, with                 *)
(* consecFailures 0 and the four counters 0, whose options are the given   *)
(* ones with every zero field replaced by its default (Attempts 3,         *)
(* TimeoutState 4 s, LimitFailure 5, MaxRequests 10,000,000); a nonzero    *)
(* field, and a non-empty name, is kept, and nil is like all-zero options. *)
(***************************************************************************)
C12_NewBreakerDefaults ==
  state # 0 =>
    LET p == scenario.input
        given(f) == IF p = NilOptions THEN 0 ELSE Head(p)[f]
        expected(f, default) == IF given(f) = 0 THEN default ELSE given(f)
    IN  /\ state = STATE_CLOSE
        /\ consecFailures = 0
        /\ counter = [TotalRequests |-> 0, TotalSucceses |-> 0, TotalFailures |-> 0,
                      TotalRejects |-> 0]
        /\ options.Attempts = expected("Attempts", 3)
        /\ options.TimeoutState = expected("TimeoutState", 4000)
        /\ options.LimitFailure = expected("LimitFailure", 5)
        /\ options.MaxRequests = expected("MaxRequests", 10000000)
        /\ (p # NilOptions /\ Head(p).NameService # "") =>
             options.NameService = Head(p).NameService
        /\ (p = NilOptions \/ Head(p).NameService = "") => options.NameService # ""

C12_Witness ==
  /\ state = STATE_CLOSE
  /\ scenario.input # NilOptions
  /\ Head(scenario.input).Attempts = 0 /\ options.Attempts = 3
  /\ Head(scenario.input).LimitFailure = 7 /\ options.LimitFailure = 7
  /\ Head(scenario.input).TimeoutState = 0 /\ options.TimeoutState = 4000

(***************************************************************************)
(* C13: cb.state changes only Closed->Open, Open->HalfOpen,                *)
(* HalfOpen->Closed and HalfOpen->Open, and a timer goroutine writes       *)
(* STATE_HALF_OPEN only when the state is still Open at that moment.       *)
(***************************************************************************)
LegalTransitions ==
  {<<STATE_CLOSE, STATE_OPEN>>, <<STATE_OPEN, STATE_HALF_OPEN>>,
   <<STATE_HALF_OPEN, STATE_CLOSE>>, <<STATE_HALF_OPEN, STATE_OPEN>>}

C13_OnlyLegalTransitions ==
  [][/\ state' # state => <<state, state'>> \in LegalTransitions
     /\ (\E t \in BagToSet(timers) : Timer_SetState(t)) => state = STATE_OPEN]_vars

(***************************************************************************)
(* C14: the breaker never stays Open for ever: whenever the state is Open, *)
(* it eventually becomes HalfOpen, when the timer goroutines are scheduled *)
(* fairly, whatever calls are rejected meanwhile and whether or not the    *)
(* events are delivered.                                                   *)
(***************************************************************************)
C14_OpenLeadsToHalfOpen == (state = STATE_OPEN) ~> (state = STATE_HALF_OPEN)

(***************************************************************************)
(* C15: one call of Failure performs at most one state transition, starts  *)
(* at most one timer and emits at most one Unavailable event: after        *)
(* tripping the breaker in its Closed branch it does not execute its       *)
(* HalfOpen branch as well.                                                *)
(***************************************************************************)
C15_OneTransitionPerFailure ==
  \A c \in Callers :
    /\ g[c].nSetOpen <= 1 /\ g[c].nTimers <= 1 /\ g[c].nEmit <= 1
    /\ (g[c].closeSeen /\ g[c].nSetOpen >= 1) => pc[c] \notin HalfBranchPcs

(***************************************************************************)
(* C16: Success and Failure executed in state Open change only the         *)
(* success or failure counter: each of their steps taken while the state   *)
(* is Open leaves cb.state, consecFailures, the timers and the events      *)
(* unchanged, and leads to the next check or to the return, never into a   *)
(* branch that writes.                                                     *)
(***************************************************************************)
C16_OpenStep ==
  \A c \in Callers :
    (state = STATE_OPEN /\ pc'[c] # pc[c]
       /\ pc[c] \in {"S_inc", "S_isHalf", "F_inc", "F_isClose", "F_isHalf"}) =>
      /\ UNCHANGED <<state, consecFailures, timers, busVars>>
      /\ counter'.TotalRequests = counter.TotalRequests
      /\ counter'.TotalRejects = counter.TotalRejects
      /\ counter'.TotalSucceses =
           counter.TotalSucceses + (IF pc[c] = "S_inc" THEN 1 ELSE 0)
      /\ counter'.TotalFailures =
           counter.TotalFailures + (IF pc[c] = "F_inc" THEN 1 ELSE 0)
      /\ pc'[c] = CASE pc[c] = "S_inc" -> "S_isHalf"
                     [] pc[c] = "S_isHalf" -> "E_return"
                     [] pc[c] = "F_inc" -> "F_isClose"
                     [] pc[c] = "F_isClose" -> "F_isHalf"
                     [] pc[c] = "F_isHalf" -> "E_return"

C16_OpenFrame == [][C16_OpenStep]_vars

C16_Witness ==
  \E c \in Callers :
    /\ pc[c] = "E_return" /\ g[c].invoked /\ ~g[c].openSeen
    /\ g[c].nFail = 1 /\ ~g[c].closeSeen /\ ~g[c].halfSeen
    /\ g[c].cfWrites = 0 /\ g[c].nSetOpen = 0 /\ g[c].nTimers = 0 /\ g[c].nEmit = 0
    /\ state = STATE_OPEN
    /\ counter.TotalFailures = options.LimitFailure + 2

(***************************************************************************)
(* C17: in every state TotalRequests = TotalSucceses + TotalFailures +     *)
(* TotalRejects + the number of Execute calls that have counted their      *)
(* request and not yet recorded an outcome; a call that returns has        *)
(* recorded exactly one outcome: a reject if it found the breaker Open,    *)
(* else a failure if the error it returns is not nil, else a success.      *)
(***************************************************************************)
Unrecorded == {"E_isOpen", "E_reject", "E_handle", "E_select", "S_inc", "F_inc"}

C17_CounterBalance ==
  /\ counter.TotalRequests =
       counter.TotalSucceses + counter.TotalFailures + counter.TotalRejects
         + Cardinality({c \in Callers : pc[c] \in Unrecorded})
  /\ \A c \in Callers :
       /\ g[c].nSucc + g[c].nFail + g[c].nRej = (IF pc[c] \in Unrecorded \cup {"idle"} THEN 0 ELSE 1)
       /\ pc[c] = "E_return" =>
            /\ g[c].nRej = 1 <=> g[c].openSeen
            /\ g[c].nFail = 1 <=> (loc[c].response.Error # Nil /\ ~g[c].openSeen)
            /\ g[c].nSucc = 1 <=> loc[c].response.Error = Nil

C17_Witness ==
  /\ \A c \in Callers : pc[c] = "idle"
  /\ counter.TotalRequests = MaxCalls + 1
  /\ counter.TotalSucceses = 1
  /\ counter.TotalRejects = 1
  /\ counter.TotalFailures = MaxCalls - 1

(***************************************************************************)
(* C18: the events a subscriber's inbound channel receives alternate       *)
(* Unavailable, Available, Unavailable, ..., starting with Unavailable:    *)
(* each event the relay receives is Unavailable if it is the first, and    *)
(* else differs from the one received before it.                           *)
(***************************************************************************)
C18_EventsAlternate ==
  [][\A s \in DOMAIN relay :
       (relay[s].pc = "recv" /\ relay'[s].pc = "select") =>
         relay'[s].ev.Code =
           (IF relay[s].ev = NoEvent \/ relay[s].ev.Code = SERVICE_AVAILABLE
              THEN SERVICE_UNAVAILABLE ELSE SERVICE_AVAILABLE)]_vars

=============================================================================
